---- MODULE Spec2Model ----
(***************************************************************************)
(* Model of the citation generator in src/f_app.py: the URL classifier     *)
(* identify_url_type, the three metadata extractors, the three citation    *)
(* formatters and the part of main() that chains them.                     *)
(*                                                                         *)
(* Representation of Python values:                                        *)
(*  - a str is a sequence of one-character strings, so "ab" is <<"a","b">>;*)
(*  - a list is a sequence; a dict is a function on its keys, and          *)
(*    d.get(k, default) is Get(d, k, default);                             *)
(*  - None in a place where a str is expected is the sentinel None, a      *)
(*    sequence that is no str; a metadata dict that is None is NoMetadata; *)
(*  - an exception leaving a formatter is the sentinel Raised(name).       *)
(***************************************************************************)
EXTENDS Integers, Sequences, FiniteSets, TLC

VARIABLES url, style, pc, calls, requests, metadata, citation

vars == <<url, style, pc, calls, requests, metadata, citation>>

-----------------------------------------------------------------------------
(* Bounds of the model. *)

\* Longest author list of the records given directly to the formatters.
MaxAuthors == 2

-----------------------------------------------------------------------------
(* Python values and str operations. *)

None == <<"None">>

NoMetadata == [None |-> TRUE]

Raised(e) == <<"raise", e>>

IsRaised(v) == Len(v) = 2 /\ v[1] = "raise"

EmptyStr == <<>>

\* Truthiness of a str-or-None value: None and '' are falsy.
Truthy(v) == v # None /\ v # EmptyStr

\* Truthiness of a metadata value: None is falsy, a dict with keys is truthy.
TruthyMeta(m) == m # NoMetadata /\ DOMAIN m # {}

Get(d, k, default) == IF k \in DOMAIN d THEN d[k] ELSE default

NoneText == <<"N","o","n","e">>

\* The text an f-string writes for a value: str(None) is 'None'.
Fmt(v) == IF v = None THEN NoneText ELSE v

Digits == {"0","1","2","3","4","5","6","7","8","9"}

Letters ==
  {"a","b","c","d","e","f","g","h","i","j","k","l","m","n","o","p","q","r","s","t",
   "u","v","w","x","y","z","A","B","C","D","E","F","G","H","I","J","K","L","M","N",
   "O","P","Q","R","S","T","U","V","W","X","Y","Z"}

\* \w of the re module, restricted to ASCII.
WordChars == Letters \cup Digits \cup {"_"}

Whitespace == {" ", "\t", "\n"}

DigitValue(c) == CHOOSE n \in 0..9 : <<"0","1","2","3","4","5","6","7","8","9">>[n + 1] = c

RECURSIVE IntToStr(_)
\* str(n) of a natural number.
IntToStr(n) ==
  IF n < 10 THEN << <<"0","1","2","3","4","5","6","7","8","9">>[n + 1] >>
  ELSE IntToStr(n \div 10) \o IntToStr(n % 10)

RECURSIVE StrToInt(_)
\* int(s) of a nonempty digit string.
StrToInt(s) ==
  IF Len(s) = 1 THEN DigitValue(s[1])
  ELSE 10 * StrToInt(SubSeq(s, 1, Len(s) - 1)) + DigitValue(s[Len(s)])

AllDigits(s) == \A i \in 1..Len(s) : s[i] \in Digits

Last(s) == s[Len(s)]

Front(s) == SubSeq(s, 1, Len(s) - 1)

\* s[:n]
Take(s, n) == SubSeq(s, 1, IF n < Len(s) THEN n ELSE Len(s))

Occurrences(s, sub) ==
  {i \in 1..(Len(s) - Len(sub) + 1) : SubSeq(s, i, i + Len(sub) - 1) = sub}

\* sub in s
Contains(s, sub) == Len(sub) = 0 \/ Occurrences(s, sub) # {}

SetMin(S) == CHOOSE x \in S : \A y \in S : x <= y

SetMax(S) == CHOOSE x \in S : \A y \in S : y <= x

\* s.split(sep)[-1] for a separator that cannot overlap itself.
SplitLast(s, sep) ==
  IF Occurrences(s, sep) = {} THEN s
  ELSE SubSeq(s, SetMax(Occurrences(s, sep)) + Len(sep), Len(s))

\* s.split(sep)[0]
SplitFirst(s, sep) ==
  IF Occurrences(s, sep) = {} THEN s
  ELSE SubSeq(s, 1, SetMin(Occurrences(s, sep)) - 1)

RECURSIVE SplitFrom(_, _, _)
SplitFrom(s, i, cur) ==
  IF i > Len(s) THEN (IF cur = <<>> THEN <<>> ELSE <<cur>>)
  ELSE IF s[i] \in Whitespace
       THEN (IF cur = <<>> THEN <<>> ELSE <<cur>>) \o SplitFrom(s, i + 1, <<>>)
       ELSE SplitFrom(s, i + 1, Append(cur, s[i]))

\* s.split(): the maximal runs of non-whitespace characters.
split(s) == SplitFrom(s, 1, <<>>)

RECURSIVE strip(_)
\* s.strip()
strip(s) ==
  IF s = <<>> THEN s
  ELSE IF s[1] \in Whitespace THEN strip(Tail(s))
  ELSE IF Last(s) \in Whitespace THEN strip(Front(s))
  ELSE s

RECURSIVE join(_, _)
\* sep.join(parts)
join(sep, parts) ==
  IF parts = <<>> THEN <<>>
  ELSE IF Len(parts) = 1 THEN parts[1]
  ELSE parts[1] \o sep \o join(sep, Tail(parts))

RECURSIVE RunLen(_, _, _)
\* Length of the longest run of characters of cls that starts at s[i].
RunLen(s, i, cls) ==
  IF i <= Len(s) /\ s[i] \in cls THEN 1 + RunLen(s, i + 1, cls) ELSE 0

-----------------------------------------------------------------------------
(* String constants of the program. *)

UnableToGenerate ==
  <<"U","n","a","b","l","e"," ","t","o"," ","g","e","n","e","r","a",
    "t","e"," ","c","i","t","a","t","i","o","n",".">>

December == <<"D","e","c","e","m","b","e","r">>

DoiOrg == <<"d","o","i",".","o","r","g">>

DoiOrgSlash == <<"d","o","i",".","o","r","g","/">>

DoiLinkPrefix == <<"h","t","t","p","s",":","/","/","d","o","i",".","o","r","g","/">>

CrossrefPrefix ==
  <<"h","t","t","p","s",":","/","/","a","p","i",".","c","r","o","s",
    "s","r","e","f",".","o","r","g","/","w","o","r","k","s","/">>

ArxivApiPrefix ==
  <<"h","t","t","p",":","/","/","e","x","p","o","r","t",".","a","r",
    "x","i","v",".","o","r","g","/","a","p","i","/","q","u","e","r",
    "y","?","i","d","_","l","i","s","t","=">>

ArxivAbsPrefix ==
  <<"h","t","t","p","s",":","/","/","a","r","x","i","v",".","o","r",
    "g","/","a","b","s","/">>

ArXivJournal == <<"a","r","X","i","v">>

CornellUniversity ==
  <<"C","o","r","n","e","l","l"," ","U","n","i","v","e","r","s","i","t","y">>

\* strftime('%B') for month numbers 1..12.
MonthName(m) ==
  << <<"J","a","n","u","a","r","y">>, <<"F","e","b","r","u","a","r","y">>,
     <<"M","a","r","c","h">>, <<"A","p","r","i","l">>, <<"M","a","y">>,
     <<"J","u","n","e">>, <<"J","u","l","y">>, <<"A","u","g","u","s","t">>,
     <<"S","e","p","t","e","m","b","e","r">>, <<"O","c","t","o","b","e","r">>,
     <<"N","o","v","e","m","b","e","r">>, December >>[m]

IsLeap(y) == (y % 4 = 0 /\ y % 100 # 0) \/ y % 400 = 0

DaysInMonth(y, m) ==
  IF m = 2 THEN (IF IsLeap(y) THEN 29 ELSE 28)
  ELSE IF m \in {4, 6, 9, 11} THEN 30 ELSE 31

ValidDate(y, m, d) == y >= 1 /\ m \in 1..12 /\ d >= 1 /\ d <= DaysInMonth(y, m)

NoDate == [ok |-> FALSE, year |-> 0, month |-> 0]

\* datetime.fromisoformat(s) for the date-only form YYYY-MM-DD; any other text
\* raises ValueError (NoDate).
fromisoformat(s) ==
  IF /\ Len(s) = 10
     /\ s[5] = "-" /\ s[8] = "-"
     /\ AllDigits(SubSeq(s, 1, 4)) /\ AllDigits(SubSeq(s, 6, 7)) /\ AllDigits(SubSeq(s, 9, 10))
     /\ ValidDate(StrToInt(SubSeq(s, 1, 4)), StrToInt(SubSeq(s, 6, 7)), StrToInt(SubSeq(s, 9, 10)))
  THEN [ok |-> TRUE, year |-> StrToInt(SubSeq(s, 1, 4)), month |-> StrToInt(SubSeq(s, 6, 7))]
  ELSE NoDate

\* datetime.strptime(s, '%Y-%m-%d'): four digits, then one or two digits for the
\* month and for the day, the whole text consumed; anything else raises ValueError.
strptime(s) ==
  LET y  == RunLen(s, 1, Digits)
      m  == RunLen(s, 6, Digits)
      ml == IF m > 2 THEN 2 ELSE m
      d  == RunLen(s, 7 + ml, Digits)
  IN IF /\ y >= 4 /\ Len(s) >= 5 /\ s[5] = "-"
        /\ ml >= 1 /\ Len(s) >= 6 + ml /\ s[6 + ml] = "-"
        /\ d \in {1, 2} /\ Len(s) = 6 + ml + d
        /\ ValidDate(StrToInt(SubSeq(s, 1, 4)), StrToInt(SubSeq(s, 6, 5 + ml)),
                     StrToInt(SubSeq(s, 7 + ml, 6 + ml + d)))
     THEN [ok |-> TRUE, year |-> StrToInt(SubSeq(s, 1, 4)),
           month |-> StrToInt(SubSeq(s, 6, 5 + ml))]
     ELSE NoDate

-----------------------------------------------------------------------------
(* The patterns of identify_url_type. *)

\* The character class [-._;()/:\w].
DoiClass == WordChars \cup {"-", ".", "_", ";", "(", ")", "/", ":"}

\* Length of the match of 10\.\d{4,}/[-._;()/:\w]+ that starts at s[i], 0 if
\* there is none.  Both repetitions are greedy and each is followed by a
\* character outside its class, so each takes its maximal run.
DoiMatchLenAt(s, i) ==
  IF i + 2 <= Len(s) /\ s[i] = "1" /\ s[i + 1] = "0" /\ s[i + 2] = "."
  THEN LET d == RunLen(s, i + 3, Digits)
           j == i + 3 + d
       IN IF d >= 4 /\ j <= Len(s) /\ s[j] = "/" /\ RunLen(s, j + 1, DoiClass) >= 1
          THEN (j + RunLen(s, j + 1, DoiClass)) - i + 1
          ELSE 0
  ELSE 0

DoiMatchStarts(s) == {i \in 1..Len(s) : DoiMatchLenAt(s, i) > 0}

\* re.search(r'10\.\d{4,}/[-._;()/:\w]+', url): the leftmost match, as group(0),
\* or None.
doi_match(s) ==
  IF DoiMatchStarts(s) = {} THEN None
  ELSE LET i == SetMin(DoiMatchStarts(s))
       IN SubSeq(s, i, i + DoiMatchLenAt(s, i) - 1)

\* Length of the match of arxiv.org/(?:abs|pdf)/(\d+\.\d+) that starts at s[i], 0
\* if there is none.  The dot of "arxiv.org" is unescaped: any character but a
\* newline.
ArxivMatchLenAt(s, i) ==
  IF /\ i + 13 <= Len(s)
     /\ SubSeq(s, i, i + 4) = <<"a","r","x","i","v">>
     /\ s[i + 5] # "\n"
     /\ SubSeq(s, i + 6, i + 9) = <<"o","r","g","/">>
     /\ SubSeq(s, i + 10, i + 12) \in {<<"a","b","s">>, <<"p","d","f">>}
     /\ s[i + 13] = "/"
  THEN LET d1 == RunLen(s, i + 14, Digits)
           k  == i + 14 + d1
           d2 == RunLen(s, k + 1, Digits)
       IN IF d1 >= 1 /\ k <= Len(s) /\ s[k] = "." /\ d2 >= 1
          THEN 14 + d1 + 1 + d2
          ELSE 0
  ELSE 0

ArxivMatchStarts(s) == {i \in 1..Len(s) : ArxivMatchLenAt(s, i) > 0}

\* re.search(r'arxiv.org/(?:abs|pdf)/(\d+\.\d+)', url), as group(1), or None.
arxiv_match(s) ==
  IF ArxivMatchStarts(s) = {} THEN None
  ELSE LET i == SetMin(ArxivMatchStarts(s))
       IN SubSeq(s, i + 14, i + ArxivMatchLenAt(s, i) - 1)

\* Line 130: the DOI stage is entered.
DoiTriggered(u) == doi_match(u) # None \/ Contains(u, DoiOrg)

\* Line 131: the DOI handed to the extractor.
DoiOf(u) == IF doi_match(u) # None THEN doi_match(u) ELSE SplitLast(u, DoiOrgSlash)

\* Line 138: the arXiv stage is entered.
ArxivTriggered(u) == arxiv_match(u) # None

\* Line 144: the argument of the generic extractor.
GenericArg(u) == u

-----------------------------------------------------------------------------
(* The extractors.  Each takes its argument and the outcome of its one HTTP   *)
(* request, and returns a metadata dict or NoMetadata.                        *)

\* A Crossref response: raises (requests.get raised), status (never read by the
\* code), json ("invalid": response.json() raises; "no_message": no 'message'
\* key; "message_not_object": data.get raises; "object"), and message, a dict
\* with optional keys title, author, published-print, container-title, volume,
\* issue, publisher.

\* Line 18: data.get('published-print', {}).get('date-parts', [['']])[0][0] can
\* be evaluated (no IndexError).
DoiYearIndexable(data) ==
  "published-print" \in DOMAIN data /\ "date-parts" \in DOMAIN data["published-print"]
    => /\ Len(data["published-print"]["date-parts"]) >= 1
       /\ Len(data["published-print"]["date-parts"][1]) >= 1

\* Line 18: str(...) of the first date part, '' from the defaults.
DoiYear(data) ==
  IF "published-print" \in DOMAIN data /\ "date-parts" \in DOMAIN data["published-print"]
  THEN IntToStr(data["published-print"]["date-parts"][1][1])
  ELSE EmptyStr

\* Line 16: f"{author.get('given', '')} {author.get('family', '')}"
DoiAuthorName(author) ==
  Get(author, "given", EmptyStr) \o <<" ">> \o Get(author, "family", EmptyStr)

\* A record whose month is left empty instead of the placeholder.
DoiRecord_NoMonth(doi, data) ==
  [title     |-> Get(data, "title", <<EmptyStr>>)[1],
   authors   |-> [i \in 1..Len(Get(data, "author", <<>>)) |->
                    DoiAuthorName(Get(data, "author", <<>>)[i])],
   year      |-> DoiYear(data),
   month     |-> EmptyStr,
   journal   |-> Get(data, "container-title", <<EmptyStr>>)[1],
   volume    |-> Get(data, "volume", EmptyStr),
   issue     |-> Get(data, "issue", EmptyStr),
   doi       |-> doi,
   url       |-> DoiLinkPrefix \o doi,
   publisher |-> Get(data, "publisher", EmptyStr)]

\* Lines 14-26: the dict literal, when no subscript in it raises.
DoiRecord(doi, data) ==
  [title     |-> Get(data, "title", <<EmptyStr>>)[1],
   authors   |-> [i \in 1..Len(Get(data, "author", <<>>)) |->
                    DoiAuthorName(Get(data, "author", <<>>)[i])],
   year      |-> DoiYear(data),
   month     |-> December,
   journal   |-> Get(data, "container-title", <<EmptyStr>>)[1],
   volume    |-> Get(data, "volume", EmptyStr),
   issue     |-> Get(data, "issue", EmptyStr),
   doi       |-> doi,
   url       |-> DoiLinkPrefix \o doi,
   publisher |-> Get(data, "publisher", EmptyStr)]

\* An extractor that fails when title, author or published-print is missing.
extract_doi_metadata_Strict(doi, resp) ==
  IF resp.raises \/ resp.json # "object" THEN NoMetadata
  ELSE IF /\ {"title", "author", "published-print"} \subseteq DOMAIN resp.message
          /\ Len(resp.message["title"]) >= 1
          /\ DoiYearIndexable(resp.message)
          /\ Len(Get(resp.message, "container-title", <<EmptyStr>>)) >= 1
       THEN DoiRecord(doi, resp.message)
       ELSE NoMetadata

extract_doi_metadata(doi, resp) ==
  IF resp.raises \/ resp.json # "object" THEN NoMetadata
  ELSE IF /\ Len(Get(resp.message, "title", <<EmptyStr>>)) >= 1
          /\ DoiYearIndexable(resp.message)
          /\ Len(Get(resp.message, "container-title", <<EmptyStr>>)) >= 1
       THEN DoiRecord(doi, resp.message)
       ELSE NoMetadata

\* The requests extract_doi_metadata sends: one GET, no retry.
DoiRequests(doi) == << CrossrefPrefix \o doi >>

\* An arXiv response: raises, xml ("malformed" or "feed"), entries (the
\* atom:entry children of the root).  An entry has optional keys title and
\* published (the element's text, None for an empty element) and authors, a
\* list of author elements with an optional key name.

\* Lines 41-46: no attribute access on a missing element or text, and the date
\* parses.
ArxivEntryReadable(entry) ==
  /\ "title" \in DOMAIN entry /\ entry.title # None
  /\ \A i \in 1..Len(entry.authors) : "name" \in DOMAIN entry.authors[i]
  /\ "published" \in DOMAIN entry /\ entry.published # None
  /\ strptime(Take(entry.published, 10)).ok

\* Lines 40-50.
ArxivRecord(arxiv_id, entry) ==
  [title     |-> strip(entry.title),
   authors   |-> [i \in 1..Len(entry.authors) |-> entry.authors[i].name],
   year      |-> Take(entry.published, 4),
   month     |-> MonthName(strptime(Take(entry.published, 10)).month),
   url       |-> ArxivAbsPrefix \o arxiv_id,
   journal   |-> ArXivJournal,
   publisher |-> CornellUniversity]

extract_arxiv_metadata(arxiv_id, resp) ==
  IF resp.raises \/ resp.xml # "feed" THEN NoMetadata
  ELSE IF resp.entries = <<>> THEN NoMetadata
  ELSE IF ArxivEntryReadable(resp.entries[1])
       THEN ArxivRecord(arxiv_id, resp.entries[1])
       ELSE NoMetadata

ArxivRequests(arxiv_id) == << ArxivApiPrefix \o arxiv_id >>

\* A fetched page: raises, metas (the meta tags in document order, each a dict
\* of its attributes name, property, content), has_title and title_string
\* (soup.title.string: None when the title element has no single text child).

\* soup.find_all('meta', {attr: val})
FindAll(metas, attr, val) ==
  SelectSeq(metas, LAMBDA t : attr \in DOMAIN t /\ t[attr] = val)

\* soup.find('meta', ...) or soup.find('meta', ...) ...: the tags found by the
\* first query that finds any, wanted[i] = <<attr, val>>.
RECURSIVE FindFirstOf(_, _)
FindFirstOf(metas, wanted) ==
  IF wanted = <<>> THEN <<>>
  ELSE IF FindAll(metas, wanted[1][1], wanted[1][2]) # <<>>
       THEN FindAll(metas, wanted[1][1], wanted[1][2])
       ELSE FindFirstOf(metas, Tail(wanted))

Content(tag) == Get(tag, "content", EmptyStr)

\* Lines 73-81.
GeneralTitle(page) ==
  LET title_tag == FindFirstOf(page.metas, << <<"property", "og:title">>,
                     <<"property", "dc:title">>, <<"name", "citation_title">> >>)
  IN IF title_tag # <<>> THEN Content(title_tag[1])
     ELSE IF page.has_title THEN page.title_string
     ELSE EmptyStr

\* Lines 84-93.
GeneralAuthors(page) ==
  LET author_tags == FindAll(page.metas, "name", "citation_author")
      author_tag  == FindFirstOf(page.metas, << <<"name", "author">>,
                       <<"property", "article:author">> >>)
  IN IF author_tags # <<>>
     THEN [i \in 1..Len(author_tags) |-> Content(author_tags[i])]
     ELSE IF author_tag # <<>> THEN << Content(author_tag[1]) >>
     ELSE <<>>

\* Lines 96-107: the parsed date of the date tag, NoDate when there is no tag
\* or its content does not parse.
GeneralDate(page) ==
  LET date_tag == FindFirstOf(page.metas, << <<"name", "citation_publication_date">>,
                    <<"property", "article:published_time">> >>)
  IN IF date_tag # <<>>
     THEN fromisoformat(SplitFirst(Content(date_tag[1]), <<"T">>))
     ELSE NoDate

\* Lines 110-120: the content of the first meta tag of that name, else ''.
GeneralField(page, name) ==
  IF FindAll(page.metas, "name", name) # <<>>
  THEN Content(FindAll(page.metas, "name", name)[1])
  ELSE EmptyStr

\* clock is datetime.now() as [year, month].
extract_general_metadata(u, resp, clock) ==
  IF resp.raises THEN NoMetadata
  ELSE [title     |-> GeneralTitle(resp),
        authors   |-> GeneralAuthors(resp),
        year      |-> IF GeneralDate(resp).ok THEN IntToStr(GeneralDate(resp).year)
                      ELSE IntToStr(clock.year),
        month     |-> IF GeneralDate(resp).ok THEN MonthName(GeneralDate(resp).month)
                      ELSE MonthName(clock.month),
        journal   |-> GeneralField(resp, "citation_journal_title"),
        volume    |-> GeneralField(resp, "citation_volume"),
        issue     |-> GeneralField(resp, "citation_issue"),
        publisher |-> EmptyStr,
        url       |-> u]

GeneralRequests(u) == << u >>

-----------------------------------------------------------------------------
(* The formatters. *)

\* A guard that takes only a missing title, not an empty one, as unusable.
NoUsableTitle_MissingOnly(m) == ~TruthyMeta(m) \/ Get(m, "title", None) = None

\* Lines 148, 185, 221: not metadata or not metadata.get('title')
NoUsableTitle(m) == ~TruthyMeta(m) \/ ~Truthy(Get(m, "title", None))

\* '. '.join(n[0] for n in tokens): the first character of each token.
Initials(tokens) == join(<<".", " ">>, [i \in 1..Len(tokens) |-> <<tokens[i][1]>>])

\* Line 154: one author of the list comprehension.  None has no split
\* (AttributeError); a name without tokens has no [-1] (IndexError).
ApaAuthorMulti(a) ==
  IF a = None THEN Raised("AttributeError")
  ELSE IF split(a) = <<>> THEN Raised("IndexError")
  ELSE Last(split(a)) \o <<",", " ">> \o Initials(Front(split(a))) \o <<".">>

\* A single-author branch that takes the first token as the family name.
ApaAuthorSingle_FirstToken(a) ==
  IF a = None THEN Raised("AttributeError")
  ELSE IF split(a) = <<>> THEN Raised("IndexError")
  ELSE split(a)[1] \o <<",", " ">> \o Initials(Tail(split(a))) \o <<".">>

\* Lines 158-159: the single author.
ApaAuthorSingle(a) ==
  IF a = None THEN Raised("AttributeError")
  ELSE LET author == split(a)
       IN IF author = <<>> THEN Raised("IndexError")
          ELSE author[Len(author)] \o <<",", " ">>
                 \o Initials(SubSeq(author, 1, Len(author) - 1)) \o <<".">>

\* Lines 152-161.
ApaAuthorText(authors) ==
  IF Len(authors) > 1
  THEN LET formatted_authors == [i \in 1..Len(authors) |-> ApaAuthorMulti(authors[i])]
           failed == {i \in 1..Len(authors) : IsRaised(formatted_authors[i])}
       IN IF failed # {} THEN formatted_authors[SetMin(failed)]
          ELSE join(<<",", " ">>, Front(formatted_authors))
                 \o <<",", " ", "&", " ">> \o Last(formatted_authors)
  ELSE IF authors # <<>> THEN ApaAuthorSingle(authors[1])
  ELSE EmptyStr

\* Lines 169-174.
ApaJournalPart(m) ==
  IF Truthy(Get(m, "journal", None))
  THEN <<".", " ">> \o m.journal
         \o (IF Truthy(Get(m, "volume", None))
             THEN <<",", " ">> \o m.volume
                    \o (IF Truthy(Get(m, "issue", None))
                        THEN <<"(">> \o m.issue \o <<")">>
                        ELSE EmptyStr)
             ELSE EmptyStr)
  ELSE EmptyStr

\* Lines 176-179.
ApaLocator(m) ==
  IF Truthy(Get(m, "doi", None)) THEN <<".", " ">> \o DoiLinkPrefix \o m.doi
  ELSE IF Truthy(Get(m, "url", None)) THEN <<".", " ">> \o m.url
  ELSE EmptyStr

format_apa_citation(m) ==
  IF NoUsableTitle(m) THEN UnableToGenerate
  ELSE IF IsRaised(ApaAuthorText(Get(m, "authors", <<>>)))
       THEN ApaAuthorText(Get(m, "authors", <<>>))
  ELSE ApaAuthorText(Get(m, "authors", <<>>))
         \o <<" ", "(">> \o Fmt(Get(m, "year", EmptyStr))
         \o (IF Truthy(Get(m, "month", None)) THEN <<",", " ">> \o m.month ELSE EmptyStr)
         \o <<")", ".", " ">> \o m.title
         \o ApaJournalPart(m)
         \o ApaLocator(m)

\* Lines 189-195.  str.join raises TypeError on an item that is None.
ChicagoAuthorText(authors) ==
  IF Len(authors) > 1
  THEN IF \E i \in 1..Len(authors) : authors[i] = None THEN Raised("TypeError")
       ELSE join(<<",", " ">>, Front(authors)) \o <<",", " ", "a", "n", "d", " ">>
              \o Last(authors)
  ELSE IF authors # <<>> THEN authors[1]
  ELSE EmptyStr

\* Lines 200-205.
ChicagoJournalPart(m) ==
  IF Truthy(Get(m, "journal", None))
  THEN <<".", " ">> \o m.journal
         \o (IF Truthy(Get(m, "volume", None))
             THEN <<" ">> \o m.volume
                    \o (IF Truthy(Get(m, "issue", None))
                        THEN <<",", " ", "n", "o", ".", " ">> \o m.issue
                        ELSE EmptyStr)
             ELSE EmptyStr)
  ELSE EmptyStr

\* Lines 207-210.
ChicagoDatePart(m) ==
  IF Truthy(Get(m, "month", None)) /\ Truthy(Get(m, "year", None))
  THEN <<" ">> \o m.month \o <<" ">> \o m.year \o <<".">>
  ELSE IF Truthy(Get(m, "year", None)) THEN <<" ">> \o m.year \o <<".">>
  ELSE EmptyStr

\* A locator that prefers the url to the doi.
ChicagoLocator_UrlFirst(m) ==
  IF Truthy(Get(m, "url", None)) THEN <<" ">> \o m.url \o <<".">>
  ELSE IF Truthy(Get(m, "doi", None)) THEN <<" ">> \o DoiLinkPrefix \o m.doi \o <<".">>
  ELSE EmptyStr

\* Lines 212-215.
ChicagoLocator(m) ==
  IF Truthy(Get(m, "doi", None)) THEN <<" ">> \o DoiLinkPrefix \o m.doi \o <<".">>
  ELSE IF Truthy(Get(m, "url", None)) THEN <<" ">> \o m.url \o <<".">>
  ELSE EmptyStr

format_chicago_citation(m) ==
  IF NoUsableTitle(m) THEN UnableToGenerate
  ELSE IF IsRaised(ChicagoAuthorText(Get(m, "authors", <<>>)))
       THEN ChicagoAuthorText(Get(m, "authors", <<>>))
  ELSE Fmt(ChicagoAuthorText(Get(m, "authors", <<>>)))
         \o <<".", " ", "\"">> \o m.title \o <<"\"">>
         \o ChicagoJournalPart(m)
         \o ChicagoDatePart(m)
         \o ChicagoLocator(m)

\* Lines 225-232.
MlaAuthorText(authors) ==
  IF authors # <<>>
  THEN IF Len(authors) > 1
       THEN Fmt(authors[1]) \o <<",", " ", "e", "t", " ", "a", "l">>
       ELSE authors[1]
  ELSE EmptyStr

\* A journal part whose volume/issue segment does not depend on the journal.
MlaJournalPart_Flat(m) ==
  (IF Truthy(Get(m, "journal", None)) THEN <<".", " ">> \o m.journal ELSE EmptyStr)
    \o (IF Truthy(Get(m, "volume", None)) /\ Truthy(Get(m, "issue", None))
        THEN <<",", " ", "v", "o", "l", ".", " ">> \o m.volume
               \o <<",", " ", "n", "o", ".", " ">> \o m.issue
        ELSE EmptyStr)

\* Lines 237-240.
MlaJournalPart(m) ==
  IF Truthy(Get(m, "journal", None))
  THEN <<".", " ">> \o m.journal
         \o (IF Truthy(Get(m, "volume", None)) /\ Truthy(Get(m, "issue", None))
             THEN <<",", " ", "v", "o", "l", ".", " ">> \o m.volume
                    \o <<",", " ", "n", "o", ".", " ">> \o m.issue
             ELSE EmptyStr)
  ELSE EmptyStr

\* Lines 242-246.
MlaPublisherDatePart(m) ==
  (IF Truthy(Get(m, "publisher", None)) THEN <<",", " ">> \o m.publisher ELSE EmptyStr)
    \o (IF Truthy(Get(m, "month", None)) /\ Truthy(Get(m, "year", None))
        THEN <<",", " ">> \o Take(m.month, 3) \o <<".", " ">> \o m.year
        ELSE EmptyStr)

\* Lines 248-251.
MlaLocator(m) ==
  IF Truthy(Get(m, "doi", None))
  THEN <<".", " ", "C", "r", "o", "s", "s", "r", "e", "f", ",", " ">> \o DoiLinkPrefix \o m.doi
  ELSE IF Truthy(Get(m, "url", None)) THEN <<".", " ">> \o m.url
  ELSE EmptyStr

format_mla_citation(m) ==
  IF NoUsableTitle(m) THEN UnableToGenerate
  ELSE Fmt(MlaAuthorText(Get(m, "authors", <<>>)))
         \o <<".", " ", "\"">> \o m.title \o <<"\"">>
         \o MlaJournalPart(m)
         \o MlaPublisherDatePart(m)
         \o MlaLocator(m)
         \o <<".">>

Styles == {"APA", "Chicago", "MLA"}

\* Lines 283-288 of main: the formatter of the selected style.
FormatCitation(st, m) ==
  IF st = "APA" THEN format_apa_citation(m)
  ELSE IF st = "Chicago" THEN format_chicago_citation(m)
  ELSE format_mla_citation(m)

-----------------------------------------------------------------------------
(* The inputs the model draws from: URLs typed by the user and outcomes of    *)
(* the three kinds of HTTP request.                                          *)

UrlDoi ==
  <<"h","t","t","p","s",":","/","/","d","o","i",".","o","r","g","/",

    "1","0",".","1","0","0","0","/","x","y","z","1","2","3">>

UrlDoiShort ==
  <<"h","t","t","p","s",":","/","/","d","o","i",".","o","r","g","/",

    "1","0",".","5","5","5","5","/","j">>

UrlDoiOrgOnly == <<"h","t","t","p","s",":","/","/","d","o","i",".","o","r","g","/","a","b","c">>

UrlArxiv ==
  <<"h","t","t","p","s",":","/","/","a","r","x","i","v",".","o","r",

    "g","/","a","b","s","/","2","3","0","1",".","1","2","3","4","5">>

UrlArxivAndDoi ==
  <<"h","t","t","p","s",":","/","/","a","r","x","i","v",".","o","r",

    "g","/","p","d","f","/","2","0","1","0",".","1","2","3","4","5",

    "/","v","1">>

UrlPlain == <<"h","t","t","p","s",":","/","/","e","x","a","m","p","l","e",".","c","o","m","/","a">>

ExamplePaper == <<"E","x","a","m","p","l","e"," ","P","a","p","e","r">>

JournalOfExamples == <<"J","o","u","r","n","a","l"," ","o","f"," ","E","x","a","m","p","l","e","s">>

ExamplePress == <<"E","x","a","m","p","l","e"," ","P","r","e","s","s">>

Jane == <<"J","a","n","e">>

JaneAnn == <<"J","a","n","e"," ","A","n","n">>

Doe == <<"D","o","e">>

John == <<"J","o","h","n">>

Smith == <<"S","m","i","t","h">>

DeepLearningSurvey ==
  <<" "," ","D","e","e","p"," ","L","e","a","r","n","i","n","g"," ",

    "S","u","r","v","e","y"," ">>

AliceSmith == <<"A","l","i","c","e"," ","S","m","i","t","h">>

Published == <<"2","0","2","3","-","0","5","-","1","0","T","0","0",":","0","0",":","0","0","Z">>

PublishedBad == <<"2","0","2","3","-","1","3","-","4","0","T","0","0",":","0","0",":","0","0","Z">>

SlashDate == <<"2","0","2","3","/","0","5","/","1","0">>

HomePage == <<"H","o","m","e"," ","P","a","g","e">>

Urls == {EmptyStr, UrlDoi, UrlDoiShort, UrlDoiOrgOnly, UrlArxiv, UrlArxivAndDoi, UrlPlain}

\* datetime.now() at the time of the generic extraction.
Clocks == {[year |-> 2026, month |-> 11], [year |-> 2027, month |-> 1]}

MessageKeys ==
  {"title", "author", "published-print", "container-title", "volume", "issue", "publisher"}

\* The message of a complete Crossref record with one author.
FullMessage(given, family, year) ==
  ("title" :> <<ExamplePaper>>)
    @@ ("author" :> << [given |-> given, family |-> family] >>)
    @@ ("published-print" :> ("date-parts" :> << <<year>> >>))
    @@ ("container-title" :> <<JournalOfExamples>>)
    @@ ("volume" :> <<"5">>)
    @@ ("issue" :> <<"2">>)
    @@ ("publisher" :> ExamplePress)

Restrict(f, K) == [k \in K |-> f[k]]

\* The scenario's message with every subset of its keys missing, other complete
\* messages, and messages whose lists are empty or whose authors lack names.
Messages ==
  {Restrict(FullMessage(Jane, Doe, 2023), K) : K \in SUBSET MessageKeys}
    \cup {FullMessage(John, Smith, 1999), FullMessage(JaneAnn, Doe, 2023)}
    \cup {("title" :> <<ExamplePaper>>) @@ ("author" :> a) :
            a \in { << [name |-> ExamplePress] >>,
                    << [family |-> Doe] >>,
                    << [given |-> Jane, family |-> Doe], [given |-> John, family |-> Smith] >>,
                    << [given |-> Jane, family |-> Doe], [name |-> ExamplePress] >> }}
    \cup {("title" :> <<>>) @@ ("author" :> <<>>),
          ("title" :> <<ExamplePaper>>) @@ ("container-title" :> <<>>),
          ("title" :> <<ExamplePaper>>) @@ ("published-print" :> ("date-parts" :> <<>>)),
          ("title" :> <<ExamplePaper>>) @@ ("published-print" :> ("date-parts" :> << <<>> >>)),
          ("title" :> <<ExamplePaper>>) @@ ("published-print" :> [timestamp |-> <<"0">>])}

DoiResponses ==
  {[raises |-> TRUE, status |-> 0, json |-> "invalid", message |-> Restrict(<<>>, {})]}
    \cup {[raises |-> FALSE, status |-> st, json |-> j, message |-> Restrict(<<>>, {})] :
            st \in {200, 404}, j \in {"invalid", "no_message", "message_not_object"}}
    \cup {[raises |-> FALSE, status |-> 200, json |-> "object", message |-> msg] :
            msg \in Messages}
    \cup {[raises |-> FALSE, status |-> st, json |-> "object", message |-> msg] :
            st \in {404, 500},
            msg \in {FullMessage(Jane, Doe, 2023),
                     Restrict(FullMessage(Jane, Doe, 2023), MessageKeys \ {"title"})}}

ArxivEntries ==
  {[title |-> DeepLearningSurvey, authors |-> a, published |-> Published] :
     a \in { <<>>, << [name |-> AliceSmith] >>, << [name |-> None] >>,
             << [name |-> AliceSmith], [name |-> None] >>,
             << [name |-> AliceSmith], [email |-> None] >> }}
    \cup {[title |-> t, authors |-> << [name |-> AliceSmith] >>, published |-> p] :
            t \in {None, <<" ", " ">>, DeepLearningSurvey},
            p \in {None, Published, PublishedBad}}
    \cup {[authors |-> << [name |-> AliceSmith] >>, published |-> Published],
          [title |-> DeepLearningSurvey, authors |-> << [name |-> AliceSmith] >>]}

ArxivResponses ==
  {[raises |-> TRUE, xml |-> "malformed", entries |-> <<>>],
   [raises |-> FALSE, xml |-> "malformed", entries |-> <<>>],
   [raises |-> FALSE, xml |-> "feed", entries |-> <<>>]}
    \cup {[raises |-> FALSE, xml |-> "feed", entries |-> <<e>>] : e \in ArxivEntries}

Meta(name, content) == [name |-> name, content |-> content]

Prop(property, content) == [property |-> property, content |-> content]

PageMetas ==
  { <<>>,
    << Prop("og:title", ExamplePaper), Meta("author", AliceSmith),
       Prop("article:published_time", Published) >>,
    << Meta("citation_title", ExamplePaper), Prop("dc:title", HomePage),
       Meta("citation_author", AliceSmith), Meta("citation_author", Doe),
       Meta("author", Smith), Meta("citation_publication_date", SlashDate),
       Meta("citation_journal_title", JournalOfExamples),
       Meta("citation_volume", <<"5">>), Meta("citation_issue", <<"2">>) >>,
    << Meta("citation_title", ExamplePaper), Meta("citation_volume", <<"5">>),
       Prop("article:author", Doe), Meta("citation_publication_date", PublishedBad) >>,
    << [property |-> "og:title"], [name |-> "citation_author"] >>,
    << Meta("citation_title", ExamplePaper), Meta("citation_author", <<" ">>) >>,
    << Prop("og:title", ExamplePaper), [name |-> "author"], Meta("citation_issue", <<"2">>) >> }

Pages ==
  {[raises |-> TRUE, metas |-> <<>>, has_title |-> FALSE, title_string |-> None]}
    \cup {[raises |-> FALSE, metas |-> ms, has_title |-> FALSE, title_string |-> None] :
            ms \in PageMetas}
    \cup {[raises |-> FALSE, metas |-> ms, has_title |-> TRUE, title_string |-> t] :
            ms \in {<<>>, << Meta("author", AliceSmith) >>, << [property |-> "og:title"] >>},
            t \in {None, HomePage}}

-----------------------------------------------------------------------------
(* main(): one request of the user, from the URL to the displayed citation.   *)
(*   url, style   the inputs of lines 268-269                                 *)
(*   pc           "main", "arxiv", "generic": the stage identify_url_type is  *)
(*                about to enter; "returned": it has returned metadata;       *)
(*                "shown": st.text(citation) ran; "blank": nothing was shown; *)
(*                "crashed": an exception left the formatter                  *)
(*   calls        the extractor invocations so far, each with its argument,   *)
(*                the response it got and what it returned                    *)
(*   requests     the URLs of the HTTP GETs so far                            *)
(*   metadata     the last value assigned to metadata                         *)
(*   citation     the formatter's result, None before it ran                  *)

Init ==
  /\ url \in Urls
  /\ style \in Styles
  /\ pc = "main"
  /\ calls = <<>>
  /\ requests = <<>>
  /\ metadata = NoMetadata
  /\ citation = None

Call(fn, arg, resp, ret) == [fn |-> fn, arg |-> arg, resp |-> resp, ret |-> ret]

\* A DOI stage that returns whatever the extractor gave, the failure included.
NextAfterDoi_FailFast(m) == "returned"

\* A DOI stage that returns the record only when its title is nonempty.
NextAfterDoi_NeedsTitle(m) ==
  IF TruthyMeta(m) /\ Truthy(m.title) THEN "returned" ELSE "arxiv"

\* Lines 133-134: return the DOI record, or go on to the arXiv check.
NextAfterDoi(m) == IF TruthyMeta(m) THEN "returned" ELSE "arxiv"

\* An arXiv stage that always goes on to the generic extractor.
NextAfterArxiv_Continue(m) == "generic"

\* Lines 140-141: return the arXiv record, or go on to the generic extractor.
NextAfterArxiv(m) == IF TruthyMeta(m) THEN "returned" ELSE "generic"

\* Line 271: an empty URL runs nothing.
NoUrl ==
  /\ pc = "main" /\ url = EmptyStr
  /\ pc' = "blank"
  /\ UNCHANGED <<url, style, calls, requests, metadata, citation>>

\* Lines 129-134, the DOI stage entered.
DoiStage ==
  /\ pc = "main" /\ url # EmptyStr /\ DoiTriggered(url)
  /\ \E resp \in DoiResponses :
       LET m == extract_doi_metadata(DoiOf(url), resp)
       IN /\ calls' = Append(calls, Call("doi", DoiOf(url), resp, m))
          /\ requests' = requests \o DoiRequests(DoiOf(url))
          /\ metadata' = m
          /\ pc' = NextAfterDoi(m)
  /\ UNCHANGED <<url, style, citation>>

\* Lines 129-130, the DOI stage skipped.
DoiSkip ==
  /\ pc = "main" /\ url # EmptyStr /\ ~DoiTriggered(url)
  /\ pc' = "arxiv"
  /\ UNCHANGED <<url, style, calls, requests, metadata, citation>>

\* Lines 137-141, the arXiv stage entered.
ArxivStage ==
  /\ pc = "arxiv" /\ ArxivTriggered(url)
  /\ \E resp \in ArxivResponses :
       LET m == extract_arxiv_metadata(arxiv_match(url), resp)
       IN /\ calls' = Append(calls, Call("arxiv", arxiv_match(url), resp, m))
          /\ requests' = requests \o ArxivRequests(arxiv_match(url))
          /\ metadata' = m
          /\ pc' = NextAfterArxiv(m)
  /\ UNCHANGED <<url, style, citation>>

\* Lines 137-138, the arXiv stage skipped.
ArxivSkip ==
  /\ pc = "arxiv" /\ ~ArxivTriggered(url)
  /\ pc' = "generic"
  /\ UNCHANGED <<url, style, calls, requests, metadata, citation>>

\* Line 144.
GenericStage ==
  /\ pc = "generic"
  /\ \E resp \in Pages, clock \in Clocks :
       LET m == extract_general_metadata(GenericArg(url), resp, clock)
       IN /\ calls' = Append(calls, Call("generic", GenericArg(url), resp, m))
          /\ requests' = requests \o GeneralRequests(GenericArg(url))
          /\ metadata' = m
  /\ pc' = "returned"
  /\ UNCHANGED <<url, style, citation>>

\* Lines 273-291: the citation of the selected style is computed and shown.
Format ==
  /\ pc = "returned" /\ TruthyMeta(metadata)
  /\ citation' = FormatCitation(style, metadata)
  /\ pc' = IF IsRaised(citation') THEN "crashed" ELSE "shown"
  /\ UNCHANGED <<url, style, calls, requests, metadata>>

\* Line 273 false: nothing is shown.
NoCitation ==
  /\ pc = "returned" /\ ~TruthyMeta(metadata)
  /\ pc' = "blank"
  /\ UNCHANGED <<url, style, calls, requests, metadata, citation>>

Next ==
  \/ NoUrl
  \/ DoiStage
  \/ DoiSkip
  \/ ArxivStage
  \/ ArxivSkip
  \/ GenericStage
  \/ Format
  \/ NoCitation

Spec == Init /\ [][Next]_vars

\* identify_url_type has returned.
Returned == pc \in {"returned", "shown", "crashed"} \/ (pc = "blank" /\ url # EmptyStr)

-----------------------------------------------------------------------------
(* The formatters on their own: a metadata value is handed straight to the    *)
(* formatter of a style, as a caller of format_*_citation may do.             *)

PageUrl == <<"h","t","t","p","s",":","/","/","e","x",".","o","r","g","/","p">>

Sp == <<" ">>

\* Author names: several tokens, two tokens, one token, none.
Names ==
  {JaneAnn \o Sp \o Doe, Jane \o Sp \o Doe, John \o Sp \o Smith, Doe, Sp, EmptyStr}

AuthorLists == UNION {[1..n -> Names] : n \in 0..MaxAuthors}

\* Every combination of empty and nonempty fields, with few author lists.
FieldRecords ==
  {[title |-> t, authors |-> a, year |-> y, month |-> mo, journal |-> j, volume |-> v,
    issue |-> i, doi |-> d, url |-> u, publisher |-> p] :
     t \in {EmptyStr, None, ExamplePaper},
     a \in {<<>>, << Jane \o Sp \o Doe >>, << Sp >>},
     y \in {EmptyStr, <<"2","0","2","3">>},
     mo \in {EmptyStr, MonthName(5)},
     j \in {EmptyStr, JournalOfExamples},
     v \in {EmptyStr, <<"5">>},
     i \in {EmptyStr, <<"7">>},
     d \in {EmptyStr, DoiOf(UrlDoi)},
     u \in {EmptyStr, PageUrl},
     p \in {EmptyStr, ExamplePress}}

\* Every author list, with all other fields filled or all empty.
AuthorRecords ==
  {[title |-> ExamplePaper, authors |-> a, year |-> <<"2","0","2","3">>,
    month |-> MonthName(5), journal |-> JournalOfExamples, volume |-> <<"5">>,
    issue |-> <<"7">>, doi |-> DoiOf(UrlDoi), url |-> PageUrl, publisher |-> ExamplePress] :
     a \in AuthorLists}
    \cup {[title |-> ExamplePaper, authors |-> a, year |-> EmptyStr, month |-> EmptyStr,
           journal |-> EmptyStr, volume |-> EmptyStr, issue |-> EmptyStr, doi |-> EmptyStr,
           url |-> EmptyStr, publisher |-> EmptyStr] : a \in AuthorLists}

\* None, dicts with missing keys, and the records above.
FormatterInputs ==
  {NoMetadata, [title |-> ExamplePaper], [authors |-> << Jane \o Sp \o Doe >>, url |-> PageUrl]}
    \cup FieldRecords \cup AuthorRecords

InitFmt ==
  /\ url = EmptyStr
  /\ style \in Styles
  /\ pc = "format"
  /\ calls = <<>>
  /\ requests = <<>>
  /\ metadata \in FormatterInputs
  /\ citation = None

\* format_apa_citation, format_chicago_citation or format_mla_citation is called.
ApplyFormatter ==
  /\ pc = "format"
  /\ citation' = FormatCitation(style, metadata)
  /\ pc' = "formatted"
  /\ UNCHANGED <<url, style, calls, requests, metadata>>

NextFmt == ApplyFormatter

SpecFmt == InitFmt /\ [][NextFmt]_vars

-----------------------------------------------------------------------------
(* Properties of the formatters, checked under SpecFmt. *)

StartsWith(s, prefix) == Len(prefix) <= Len(s) /\ SubSeq(s, 1, Len(prefix)) = prefix

EndsWith(s, suffix) ==
  Len(suffix) <= Len(s) /\ SubSeq(s, Len(s) - Len(suffix) + 1, Len(s)) = suffix

Field(m, k) == Get(m, k, EmptyStr)

Formatted == pc = "formatted" /\ metadata # NoMetadata /\ Truthy(Get(metadata, "title", None))

\* C1: for a missing record, and for every record whose title is empty (or
\* absent, or None), each of the three formatters returns exactly "Unable to
\* generate citation.", whatever the other fields hold.
C1_EmptyTitleUnable ==
  pc = "formatted" /\ (metadata = NoMetadata \/ ~Truthy(Get(metadata, "title", None)))
    => citation = UnableToGenerate

\* C1 happens: a record with every other field filled, and an author name
\* without tokens, has an empty title and yields the fixed text.
C1_Witness ==
  /\ pc = "formatted" /\ metadata # NoMetadata
  /\ Field(metadata, "title") = EmptyStr
  /\ Field(metadata, "authors") = << Sp >>
  /\ Truthy(Field(metadata, "doi")) /\ Truthy(Field(metadata, "url"))
  /\ Truthy(Field(metadata, "journal")) /\ Truthy(Field(metadata, "publisher"))
  /\ style = "APA"
  /\ citation = UnableToGenerate

\* What follows the locator in each style.
LocatorSuffix(st) == IF st = "APA" THEN EmptyStr ELSE <<".">>

\* C2: for a record with a nonempty title and a nonempty doi, every formatter
\* ends the citation with https://doi.org/{doi} and the record's url does not
\* appear, even when it is nonempty; the url is the locator only when doi is empty.
C2_DoiPrecedence ==
  Formatted /\ ~IsRaised(citation)
    => /\ Truthy(Field(metadata, "doi"))
            => /\ EndsWith(citation, DoiLinkPrefix \o metadata.doi \o LocatorSuffix(style))
               /\ Truthy(Field(metadata, "url")) => ~Contains(citation, metadata.url)
       /\ ~Truthy(Field(metadata, "doi")) /\ Truthy(Field(metadata, "url"))
            => EndsWith(citation, metadata.url \o LocatorSuffix(style))
       /\ Truthy(Field(metadata, "url")) /\ Contains(citation, metadata.url)
            => ~Truthy(Field(metadata, "doi"))

\* C2 happens: doi and url are both nonempty and the citation ends with the DOI link.
C2_Witness ==
  /\ Formatted /\ style = "Chicago"
  /\ Truthy(Field(metadata, "doi")) /\ Field(metadata, "url") = PageUrl
  /\ EndsWith(citation, DoiLinkPrefix \o metadata.doi \o <<".">>)

\* The rendering of one author name that C7 describes: the last token, ", ",
\* then the first character of each preceding token joined by ". ", then ".".
C7_Render(name) ==
  LET tokens == split(name)
  IN tokens[Len(tokens)] \o <<",", " ">>
       \o join(<<".", " ">>, [i \in 1..(Len(tokens) - 1) |-> <<tokens[i][1]>>]) \o <<".">>

\* The renderings joined by ", " with ", & " before the last.
C7_Joined(rs) ==
  IF Len(rs) = 1 THEN rs[1]
  ELSE join(<<",", " ">>, SubSeq(rs, 1, Len(rs) - 1)) \o <<",", " ", "&", " ">> \o rs[Len(rs)]

C7_JaneAnnDoe == <<"D","o","e",","," ","J","."," ","A",".">>

C7_DoeAndSmith ==
  <<"D","o","e",","," ","J",".",","," ","&"," ","S","m","i","t","h",
    ","," ","J",".">>

C9_SegmentsNest ==
  Formatted /\ ~IsRaised(citation)
    => /\ Contains(citation, <<"5">>)
            => Truthy(Field(metadata, "journal")) /\ Field(metadata, "volume") = <<"5">>
       /\ Contains(citation, <<"7">>)
            => /\ Truthy(Field(metadata, "journal")) /\ Truthy(Field(metadata, "volume"))
               /\ Field(metadata, "issue") = <<"7">>
       /\ style = "MLA"
            /\ (Contains(citation, <<"v","o","l","."," ">>) \/ Contains(citation, <<"n","o","."," ">>))
            => /\ Truthy(Field(metadata, "journal")) /\ Truthy(Field(metadata, "volume"))
               /\ Truthy(Field(metadata, "issue"))
       /\ style = "Chicago" /\ Contains(citation, <<"n","o","."," ">>)
            => /\ Truthy(Field(metadata, "journal")) /\ Truthy(Field(metadata, "volume"))
               /\ Truthy(Field(metadata, "issue"))
       /\ style = "APA" /\ Contains(citation, <<"5","(">>)
            => Truthy(Field(metadata, "issue"))

\* C9 happens: an issue and a volume without a journal, and neither is emitted.
C9_Witness ==
  /\ Formatted /\ ~IsRaised(citation)
  /\ ~Truthy(Field(metadata, "journal"))
  /\ Truthy(Field(metadata, "volume")) /\ Truthy(Field(metadata, "issue"))
  /\ ~Contains(citation, <<"5">>) /\ ~Contains(citation, <<"7">>)

-----------------------------------------------------------------------------
(* Properties of the pipeline, checked under Spec. *)

\* The position of an extractor in the order DOI, arXiv, generic.
Rank(fn) == IF fn = "doi" THEN 1 ELSE IF fn = "arxiv" THEN 2 ELSE 3

InOrder == \A i \in 1..(Len(calls) - 1) : Rank(calls[i].fn) < Rank(calls[i + 1].fn)

NoCallAfterRecord == \A i \in 1..(Len(calls) - 1) : calls[i].ret = NoMetadata

\* C3: the strategies are tried in the order DOI, arXiv, generic; a failure of
\* the DOI or arXiv extractor does not end the run; and when identify_url_type
\* has returned and every DOI/arXiv extractor that ran has failed (or none
\* ran), the generic extractor was called with the unchanged URL and what it
\* returned, record or failure, is the result.
C3_FallThrough ==
  /\ InOrder
  /\ Returned /\ (\A i \in 1..Len(calls) :
                    calls[i].fn \in {"doi", "arxiv"} => calls[i].ret = NoMetadata)
       => /\ calls # <<>>
          /\ Last(calls).fn = "generic"
          /\ Last(calls).arg = url
          /\ metadata = Last(calls).ret

\* C3 happens (scenario 4): the Crossref request raised for a DOI URL without
\* an arXiv pattern, and the generic extractor ran on the same URL.
C3_Witness ==
  /\ Returned /\ url = UrlDoi /\ Len(calls) = 2
  /\ calls[1].fn = "doi" /\ calls[1].resp.raises /\ calls[1].ret = NoMetadata
  /\ calls[2].fn = "generic" /\ calls[2].arg = UrlDoi
  /\ metadata = calls[2].ret /\ metadata # NoMetadata

\* C4: whatever the URL, the responses and the style, no exception leaves the
\* pipeline: what the caller sees is "Unable to generate citation." or a
\* citation text.
C4_NoExceptionEscapes ==
  /\ pc # "crashed"
  /\ ~IsRaised(citation)

OnePerStage == \A i, j \in 1..Len(calls) : calls[i].fn = calls[j].fn => i = j

\* C5 as stated: one run makes at most two extractor invocations (network
\* calls), at most one per stage, and none after an extractor returned a record.
C5_AtMostTwoCalls ==
  /\ Len(calls) <= 2 /\ Len(requests) <= 2
  /\ OnePerStage
  /\ NoCallAfterRecord

\* C5, amended: one run makes at most three extractor invocations, each with
\* one request, and three only for a URL that triggers the DOI stage and the
\* arXiv stage and fails in both; at most one per stage, and none after an
\* extractor returned a record.
C5_AtMostThreeCalls ==
  /\ Len(calls) <= 3 /\ Len(requests) = Len(calls)
  /\ Len(calls) = 3 => DoiTriggered(url) /\ ArxivTriggered(url)
  /\ OnePerStage
  /\ NoCallAfterRecord

\* C5 happens: a URL with both patterns, three extractors run.
C5_Witness ==
  /\ Returned /\ Len(calls) = 3 /\ Len(requests) = 3
  /\ calls[1].ret = NoMetadata /\ calls[2].ret = NoMetadata

TenKeys ==
  {"title", "authors", "year", "month", "journal", "volume", "issue", "doi", "url",
   "publisher"}

DoiCalls == {i \in 1..Len(calls) : calls[i].fn = "doi"}

\* The response carries no JSON object under 'message'.
NoMessageObject(r) == r.raises \/ r.json # "object"

\* A list the extractor takes the first element of is present and empty.
EmptyIndexedList(msg) ==
  \/ "title" \in DOMAIN msg /\ msg["title"] = <<>>
  \/ "container-title" \in DOMAIN msg /\ msg["container-title"] = <<>>
  \/ /\ "published-print" \in DOMAIN msg
     /\ "date-parts" \in DOMAIN msg["published-print"]
     /\ \/ msg["published-print"]["date-parts"] = <<>>
        \/ msg["published-print"]["date-parts"][1] = <<>>

C8_Response(r) ==
  /\ ~r.raises /\ r.json = "object" /\ DOMAIN r.message = MessageKeys
  /\ Len(r.message["author"]) = 1
  /\ DOMAIN r.message["author"][1] = {"given", "family"}
  /\ Len(split(r.message["author"][1].given)) = 1
  /\ Len(split(r.message["author"][1].family)) = 1

C8_Expected ==
  <<"D","o","e",","," ","J","."," ","(","2","0","2","3",","," ","D",
    "e","c","e","m","b","e","r",")","."," ","E","x","a","m","p","l",
    "e"," ","P","a","p","e","r","."," ","J","o","u","r","n","a","l",
    " ","o","f"," ","E","x","a","m","p","l","e","s",","," ","5","(",
    "2",")","."," ","h","t","t","p","s",":","/","/","d","o","i",".",
    "o","r","g","/","1","0",".","1","0","0","0","/","x","y","z","1",
    "2","3">>

\* C8: for a URL https://doi.org/{doi} and a registry response with a title, one
\* author, a print year, a container title, a volume, an issue and a publisher,
\* style APA: the DOI extractor is called with the part of the URL that matches
\* the DOI pattern, month is "December", and the citation is
\* "{Family}, {G}. ({year}, December). {title}. {journal}, {volume}({issue}).
\* https://doi.org/{doi}"; for 10.1000/xyz123 it is the text of the scenario.
C8_EndToEnd ==
  pc \in {"shown", "crashed"} /\ style = "APA" /\ url \in {UrlDoi, UrlDoiShort}
    /\ C8_Response(calls[1].resp)
    => LET msg == calls[1].resp.message
           doi == SubSeq(url, Len(DoiLinkPrefix) + 1, Len(url))
       IN /\ Len(calls) = 1 /\ calls[1].fn = "doi" /\ calls[1].arg = doi
          /\ doi_match(url) = doi
          /\ metadata.doi = doi /\ metadata.month = December
          /\ citation =
               msg["author"][1].family \o <<",", " ">>
                 \o << msg["author"][1].given[1] >> \o <<".", " ", "(">>
                 \o IntToStr(msg["published-print"]["date-parts"][1][1])
                 \o <<",", " ">> \o December \o <<")", ".", " ">>
                 \o msg["title"][1] \o <<".", " ">>
                 \o msg["container-title"][1] \o <<",", " ">>
                 \o msg["volume"] \o <<"(">> \o msg["issue"] \o <<")", ".", " ">>
                 \o DoiLinkPrefix \o doi
          /\ url = UrlDoi /\ msg = FullMessage(Jane, Doe, 2023) => citation = C8_Expected

\* C8 happens: the scenario's URL and response, style APA.
C8_Witness ==
  /\ pc = "shown" /\ style = "APA" /\ url = UrlDoi
  /\ calls[1].resp.status = 200 /\ C8_Response(calls[1].resp)
  /\ calls[1].resp.message = FullMessage(Jane, Doe, 2023)
  /\ citation = C8_Expected

\* C10: each extractor runs at most once and in the order DOI, arXiv, generic;
\* an extractor runs only after every earlier one that ran has failed; the
\* first extractor that returns a record ends the run and that record is the
\* result as it is, an empty title included.
C10_FirstRecordWins ==
  /\ OnePerStage /\ InOrder
  /\ \A i \in 1..Len(calls) :
       /\ calls[i].fn = "arxiv" => ~DoiTriggered(url) \/ (i = 2 /\ calls[1].ret = NoMetadata)
       /\ calls[i].fn = "generic" => \A j \in 1..(i - 1) : calls[j].ret = NoMetadata
       /\ calls[i].ret # NoMetadata
            => /\ i = Len(calls)
               /\ Returned
               /\ metadata = calls[i].ret

\* C10 happens: the DOI extractor returned a record with an empty title; no
\* other extractor ran and the formatter got that record.
C10_Witness ==
  /\ pc = "shown" /\ Len(calls) = 1 /\ calls[1].fn = "doi"
  /\ ArxivTriggered(url)
  /\ calls[1].ret # NoMetadata /\ calls[1].ret.title = EmptyStr
  /\ metadata = calls[1].ret
  /\ citation = UnableToGenerate

====
